---- MODULE Spec2Model ----
(***************************************************************************)
(* Synthea CSV -> Neo4j loader (src/load_synthea_to_neo4j.py).             *)
(*                                                                         *)
(* The graph store is modelled by what the Cypher statements of the loader *)
(* do to it: CREATE appends nodes, a uniqueness constraint that is in      *)
(* force makes a CREATE with a repeated identifier fail (the whole         *)
(* auto-commit statement), MATCH .. MATCH .. MERGE adds one relationship   *)
(* per matched pair of node instances that does not have one yet.          *)
(* Of the node templates the identifier and foreign-key properties and the *)
(* properties coerced by toFloat / toInteger are carried; the other        *)
(* pass-through strings take no part in matching or coercion.              *)
(***************************************************************************)
EXTENDS Integers, Sequences, FiniteSets, TLC

VARIABLES
    batch_size,   \* self.batch_size
    csv_n,        \* number of data rows of every CSV file of the directory
    variant,      \* which family of CSV contents the directory holds
    rejects,      \* schema statements the server refuses, every time
    nodes,        \* store: sequence of nodes, a node's position is its identity
    edges,        \* store: bag of relationships, <<type, from, to>> -> how many
    constraints,  \* store: labels with a uniqueness constraint on id
    indexes,      \* store: <<label, property>> pairs with an index
    pc,           \* position of the run inside main / load_all_data
    ent,          \* index into EntityOrder of the load_* method running
    k,            \* index of the next schema statement / relationship statement
    i,            \* loop variable of _load_in_batches
    df,           \* the DataFrame read by the running load_* method
    run,          \* how many times main was started
    status,       \* "idle", "running", "complete" or "aborted"
    closes,       \* how often loader.close() ran in this run
    error,        \* the exception main caught in this run, "" when none
    report,       \* what print_statistics logged in this run
    loaded,       \* history: labels whose node pass finished in this run
    log,          \* history: the store statements issued in this run, in order
    batches,      \* history: the batches _load_in_batches passed to session.run
    atStart,      \* history: the store as it was when this run started
    chatbot,      \* synthea_api: the module global, 0 for None, else the instance
    built,        \* history: how many SyntheaChatbot() calls returned an instance
    handed,       \* history: what each call of get_chatbot gave its caller
    server,       \* the API process: "stopped", "serving" or "exited"
    ws,           \* position of websocket_ask on the current connection
    sent,         \* the messages websocket_ask sent on the current connection
    inbox,        \* history: the texts received on the current connection
    conns,        \* how many connections /ws/ask accepted
    posts,        \* history: the POST /ask exchanges
    cli,          \* synthea_chatbot_gemini.main: "start", "loop" or "ended"
    transcript    \* history: the calls of ask made by the console loop

vars == <<batch_size, csv_n, variant, rejects, nodes, edges, constraints, indexes,
          pc, ent, k, i, df, run, status, closes, error, report, loaded, log,
          batches, atStart, chatbot, built, handed, server, ws, sent, inbox,
          conns, posts, cli, transcript>>

\* synthea_api.py and the console of synthea_chatbot_gemini.py
service == <<chatbot, built, handed, server, ws, sent, inbox, conns, posts>>
console == <<cli, transcript>>

config == <<batch_size, csv_n, variant, rejects>>
store == <<nodes, edges, constraints, indexes>>
loader == <<config, store, pc, ent, k, i, df, run, status, closes, error, report,
            loaded, log, batches, atStart>>

----------------------------------------------------------------------------
(* Bounds *)

MaxRows == 2
MaxBatch == 2
MaxRuns == 2
MaxPosts == 2
MaxConnections == 2
MaxMessages == 2
MaxAsks == 2

----------------------------------------------------------------------------
(* Values *)

\* pandas' missing cell, before fillna
NaN == "NaN"
\* Cypher null: a key the row map does not have, a property a node does not have
Null == "null"
\* Python's None
None == "None"

\* Numbers as pandas hands them to the driver and as Cypher stores them:
\* floats and integers, written with their type
Floats == {"f:12.5", "f:12.0", "f:7.0", "f:0.0"}
Ints == {"i:12", "i:7", "i:0"}
Zeros == {"f:0.0", "i:0"}

Min(a, b) == IF a < b THEN a ELSE b

----------------------------------------------------------------------------
(* Schema: what load_all_data and the load_* methods spell out *)

\* Mutant of EntityOrder: load_payers is called after load_encounters
EntityOrderPayerLate ==
    << "Patient", "Organization", "Provider",
       "Encounter", "Payer",
       "Condition", "Medication", "Procedure", "Immunization", "Observation",
       "Allergy", "CarePlan", "Device", "ImagingStudy", "Supply",
       "PayerTransition", "Claim", "ClaimTransaction" >>

\* Mutant of EntityOrder: load_claims is called before load_payer_transitions
EntityOrderClaimFirst ==
    << "Patient", "Organization", "Provider", "Payer",
       "Encounter",
       "Condition", "Medication", "Procedure", "Immunization", "Observation",
       "Allergy", "CarePlan", "Device", "ImagingStudy", "Supply",
       "Claim", "PayerTransition", "ClaimTransaction" >>

\* load_all_data: the load_* calls, in order
EntityOrder ==
    << "Patient", "Organization", "Provider", "Payer",
       "Encounter",
       "Condition", "Medication", "Procedure", "Immunization", "Observation",
       "Allergy", "CarePlan", "Device", "ImagingStudy", "Supply",
       "PayerTransition", "Claim", "ClaimTransaction" >>

Labels == { EntityOrder[e] : e \in DOMAIN EntityOrder }

\* create_constraints: the label of each "REQUIRE x.id IS UNIQUE" statement
ConstraintList ==
    << "Patient", "Encounter", "Organization", "Provider", "Payer",
       "CarePlan", "Claim", "ClaimTransaction" >>

\* create_indexes: label and property of each statement
IndexList ==
    << <<"Patient", "ssn">>, <<"Encounter", "start">>, <<"Condition", "code">>,
       <<"Medication", "code">>, <<"Procedure", "code">> >>

P(prop, col) == [prop |-> prop, col |-> col]

\* The identifier and foreign-key entries of each CREATE template:
\* node property <- row column.
Template(L) ==
    CASE L = "Patient"      -> << P("id", "Id") >>
      [] L = "Organization" -> << P("id", "Id") >>
      [] L = "Provider"     -> << P("id", "Id"), P("organizationId", "ORGANIZATION") >>
      [] L = "Payer"        -> << P("id", "Id") >>
      [] L = "Encounter"    -> << P("id", "Id"), P("patientId", "PATIENT"),
                                  P("organizationId", "ORGANIZATION"),
                                  P("providerId", "PROVIDER"), P("payerId", "PAYER") >>
      [] L = "Medication"   -> << P("patientId", "PATIENT"), P("payerId", "PAYER"),
                                  P("encounterId", "ENCOUNTER") >>
      [] L \in {"CarePlan", "ImagingStudy"}
                            -> << P("id", "Id"), P("patientId", "PATIENT"),
                                  P("encounterId", "ENCOUNTER") >>
      [] L = "PayerTransition"
                            -> << P("patientId", "PATIENT"), P("payerId", "PAYER"),
                                  P("secondaryPayerId", "SECONDARY_PAYER") >>
      [] L = "Claim"        -> << P("id", "Id"), P("patientId", "PATIENTID"),
                                  P("providerId", "PROVIDERID"),
                                  P("primaryInsuranceId", "PRIMARYPATIENTINSURANCEID"),
                                  P("secondaryInsuranceId", "SECONDARYPATIENTINSURANCEID"),
                                  P("appointmentId", "APPOINTMENTID") >>
      [] L = "ClaimTransaction"
                            -> << P("id", "Id"), P("claimId", "CLAIMID"),
                                  P("patientId", "PATIENTID"),
                                  P("placeOfService", "PLACEOFSERVICE"),
                                  P("appointmentId", "APPOINTMENTID"),
                                  P("providerId", "PROVIDERID") >>
      [] OTHER              -> << P("patientId", "PATIENT"),
                                  P("encounterId", "ENCOUNTER") >>

Props(L) == { Template(L)[j].prop : j \in DOMAIN Template(L) }

\* A toFloat(row.COL) / toInteger(row.COL) entry of a CREATE template
AsFloat(prop, col) == [prop |-> prop, col |-> col, kind |-> "float"]
AsInteger(prop, col) == [prop |-> prop, col |-> col, kind |-> "integer"]

\* The numeric entries of each CREATE template
NumericTemplate(L) ==
    CASE L = "Patient" ->
           << AsFloat("lat", "LAT"), AsFloat("lon", "LON"),
              AsFloat("healthcareExpenses", "HEALTHCARE_EXPENSES"),
              AsFloat("healthcareCoverage", "HEALTHCARE_COVERAGE"),
              AsFloat("income", "INCOME") >>
      [] L = "Organization" ->
           << AsFloat("lat", "LAT"), AsFloat("lon", "LON"),
              AsFloat("revenue", "REVENUE"),
              AsInteger("utilization", "UTILIZATION") >>
      [] L = "Provider" ->
           << AsFloat("lat", "LAT"), AsFloat("lon", "LON"),
              AsInteger("encounters", "ENCOUNTERS"),
              AsInteger("procedures", "PROCEDURES") >>
      [] L = "Payer" ->
           << AsFloat("amountCovered", "AMOUNT_COVERED"),
              AsFloat("amountUncovered", "AMOUNT_UNCOVERED"),
              AsFloat("revenue", "REVENUE"),
              AsInteger("coveredEncounters", "COVERED_ENCOUNTERS"),
              AsInteger("uncoveredEncounters", "UNCOVERED_ENCOUNTERS"),
              AsInteger("coveredMedications", "COVERED_MEDICATIONS"),
              AsInteger("uncoveredMedications", "UNCOVERED_MEDICATIONS"),
              AsInteger("coveredProcedures", "COVERED_PROCEDURES"),
              AsInteger("uncoveredProcedures", "UNCOVERED_PROCEDURES"),
              AsInteger("coveredImmunizations", "COVERED_IMMUNIZATIONS"),
              AsInteger("uncoveredImmunizations", "UNCOVERED_IMMUNIZATIONS"),
              AsInteger("uniqueCustomers", "UNIQUE_CUSTOMERS"),
              AsFloat("qolsAvg", "QOLS_AVG"),
              AsInteger("memberMonths", "MEMBER_MONTHS") >>
      [] L = "Encounter" ->
           << AsFloat("baseCost", "BASE_ENCOUNTER_COST"),
              AsFloat("totalClaimCost", "TOTAL_CLAIM_COST"),
              AsFloat("payerCoverage", "PAYER_COVERAGE") >>
      [] L = "Medication" ->
           << AsFloat("baseCost", "BASE_COST"),
              AsFloat("payerCoverage", "PAYER_COVERAGE"),
              AsInteger("dispenses", "DISPENSES"),
              AsFloat("totalCost", "TOTALCOST") >>
      [] L = "Procedure" ->
           << AsFloat("baseCost", "BASE_COST") >>
      [] L = "Immunization" ->
           << AsFloat("cost", "COST") >>
      [] L = "Supply" ->
           << AsInteger("quantity", "QUANTITY") >>
      [] L = "Claim" ->
           << AsInteger("departmentId", "DEPARTMENTID"),
              AsInteger("patientDepartmentId", "PATIENTDEPARTMENTID"),
              AsFloat("outstanding1", "OUTSTANDING1"),
              AsFloat("outstanding2", "OUTSTANDING2"),
              AsFloat("outstandingP", "OUTSTANDINGP"),
              AsInteger("healthcareClaimTypeId1", "HEALTHCARECLAIMTYPEID1"),
              AsInteger("healthcareClaimTypeId2", "HEALTHCARECLAIMTYPEID2") >>
      [] L = "ClaimTransaction" ->
           << AsInteger("chargeId", "CHARGEID"),
              AsFloat("amount", "AMOUNT"),
              AsInteger("diagnosisRef1", "DIAGNOSISREF1"),
              AsInteger("diagnosisRef2", "DIAGNOSISREF2"),
              AsInteger("diagnosisRef3", "DIAGNOSISREF3"),
              AsInteger("diagnosisRef4", "DIAGNOSISREF4"),
              AsInteger("units", "UNITS"),
              AsInteger("departmentId", "DEPARTMENTID"),
              AsFloat("unitAmount", "UNITAMOUNT"),
              AsInteger("transferOutId", "TRANSFEROUTID"),
              AsFloat("payments", "PAYMENTS"),
              AsFloat("adjustments", "ADJUSTMENTS"),
              AsFloat("transfers", "TRANSFERS"),
              AsFloat("outstanding", "OUTSTANDING"),
              AsInteger("feeScheduleId", "FEEscheduleid") >>
      [] OTHER -> << >>

NumericProps(L) == { NumericTemplate(L)[j].prop : j \in DOMAIN NumericTemplate(L) }

\* toFloat or toInteger, by label and column
KindTable ==
    [L \in Labels |->
        LET T == NumericTemplate(L) IN
        [col \in { T[j].col : j \in DOMAIN T } |->
            (CHOOSE e \in { T[j] : j \in DOMAIN T } : e.col = col).kind]]

NumericColumns(L) == DOMAIN KindTable[L]

Columns(L) == { Template(L)[j].col : j \in DOMAIN Template(L) } \cup NumericColumns(L)

\* A relationship statement
\*   MATCH (s:src) [WHERE s.fk IS NOT NULL] MATCH (t:tgt {id: s.fk}) MERGE ...
\* out: the relationship points from s (the node holding the foreign key)
\* to t; otherwise from t to s.
R(type, src, fk, tgt, out, notnull) ==
    [type |-> type, src |-> src, fk |-> fk, tgt |-> tgt, out |-> out,
     notnull |-> notnull]

ByPatient(type, L) == R(type, L, "patientId", "Patient", FALSE, FALSE)
ByEncounter(type, L) == R(type, L, "encounterId", "Encounter", FALSE, FALSE)

\* The relationship statements of each load_* method, in the order it runs them
Rules(L) ==
    CASE L \in {"Patient", "Organization", "Payer"} -> << >>
      [] L = "Provider" ->
           << R("EMPLOYED_BY", L, "organizationId", "Organization", TRUE, FALSE) >>
      [] L = "Encounter" ->
           << R("HAD_ENCOUNTER", L, "patientId", "Patient", FALSE, FALSE),
              R("OCCURRED_AT", L, "organizationId", "Organization", TRUE, FALSE),
              R("ATTENDED_BY", L, "providerId", "Provider", TRUE, FALSE),
              R("COVERED_BY", L, "payerId", "Payer", TRUE, FALSE) >>
      [] L = "Condition" ->
           << ByPatient("HAS_CONDITION", L), ByEncounter("DIAGNOSED", L) >>
      [] L = "Medication" ->
           << ByPatient("PRESCRIBED", L), ByEncounter("PRESCRIBED_MEDICATION", L),
              R("PAID_BY", L, "payerId", "Payer", TRUE, TRUE) >>
      [] L = "Procedure" ->
           << ByPatient("UNDERWENT_PROCEDURE", L),
              ByEncounter("PERFORMED_PROCEDURE", L) >>
      [] L = "Immunization" ->
           << ByPatient("RECEIVED_IMMUNIZATION", L),
              ByEncounter("ADMINISTERED_IMMUNIZATION", L) >>
      [] L = "Observation" ->
           << ByPatient("HAS_OBSERVATION", L), ByEncounter("RECORDED_OBSERVATION", L) >>
      [] L = "Allergy" ->
           << ByPatient("HAS_ALLERGY", L), ByEncounter("DOCUMENTED_ALLERGY", L) >>
      [] L = "CarePlan" ->
           << ByPatient("HAS_CAREPLAN", L), ByEncounter("INITIATED_CAREPLAN", L) >>
      [] L = "Device" ->
           << ByPatient("USES_DEVICE", L), ByEncounter("ASSOCIATED_DEVICE", L) >>
      [] L = "ImagingStudy" ->
           << ByPatient("HAD_IMAGING", L), ByEncounter("CONDUCTED_IMAGING", L) >>
      [] L = "Supply" ->
           << ByPatient("USED_SUPPLY", L), ByEncounter("CONSUMED_SUPPLY", L) >>
      [] L = "PayerTransition" ->
           << ByPatient("HAD_COVERAGE", L),
              R("PRIMARY_PAYER", L, "payerId", "Payer", TRUE, FALSE),
              R("SECONDARY_PAYER", L, "secondaryPayerId", "Payer", TRUE, TRUE) >>
      [] L = "Claim" ->
           << ByPatient("FILED_CLAIM", L),
              R("SUBMITTED_BY", L, "providerId", "Provider", TRUE, FALSE),
              R("PRIMARY_INSURANCE", L, "primaryInsuranceId", "Payer", TRUE, TRUE),
              R("SECONDARY_INSURANCE", L, "secondaryInsuranceId", "Payer", TRUE, TRUE),
              R("FOR_ENCOUNTER", L, "appointmentId", "Encounter", TRUE, TRUE) >>
      [] L = "ClaimTransaction" ->
           << R("HAS_TRANSACTION", L, "claimId", "Claim", FALSE, FALSE),
              R("FOR_PATIENT", L, "patientId", "Patient", TRUE, FALSE),
              R("SERVICE_AT", L, "placeOfService", "Organization", TRUE, TRUE),
              R("PERFORMED_BY", L, "providerId", "Provider", TRUE, TRUE),
              R("DURING_ENCOUNTER", L, "appointmentId", "Encounter", TRUE, TRUE) >>

AllRules == UNION { { Rules(L)[j] : j \in DOMAIN Rules(L) } : L \in Labels }

----------------------------------------------------------------------------
(* The CSV directory: the inputs the model ranges over *)

Variants == {"clean", "ragged", "dup", "blank"}

IdStr(L, j) == L \o ":" \o ToString(j)

\* The entity a foreign-key column of the Synthea files refers to
ColumnRef(col) ==
    CASE col \in {"PATIENT", "PATIENTID"} -> "Patient"
      [] col \in {"ORGANIZATION", "PLACEOFSERVICE"} -> "Organization"
      [] col \in {"PROVIDER", "PROVIDERID"} -> "Provider"
      [] col \in {"ENCOUNTER", "APPOINTMENTID"} -> "Encounter"
      [] col = "CLAIMID" -> "Claim"
      [] OTHER -> "Payer"

OptionalColumns == {"SECONDARY_PAYER", "SECONDARYPATIENTINSURANCEID"}

ColumnKind(L, col) == KindTable[L][col]

\* Cell of row j of a numeric column, as read_csv returns it:
\*   clean, blank - a column of numbers, none missing (float64 / int64),
\*            zero on even rows
\*   ragged - a column holding text on row 1, so an object column of strings:
\*            not a number on row 1, missing on even rows, a numeral after
\*   dup    - a column of numbers with the even rows missing, float64 also
\*            where the numbers are whole
NumericCell(v, kind, j) ==
    CASE v \in {"clean", "blank"} ->
                         IF j % 2 = 0 THEN (IF kind = "float" THEN "f:0.0" ELSE "i:0")
                         ELSE (IF kind = "float" THEN "f:12.5" ELSE "i:7")
      [] v = "ragged" -> IF j % 2 = 0 THEN NaN
                         ELSE IF j = 1 THEN "abc"
                         ELSE (IF kind = "float" THEN "12.5" ELSE "7")
      [] v = "dup"    -> IF j % 2 = 0 THEN NaN
                         ELSE (IF kind = "float" THEN "f:12.5" ELSE "f:7.0")

\* Cell of row j of a file, by variant:
\*   clean  - distinct ids; every required key names a row of the target file
\*            (rows 1 and 2 the same one); optional keys are empty on odd rows
\*   ragged - row 2 has an empty Id cell; required keys are dangling on odd
\*            rows and empty on even rows; optional keys are empty on even rows
\*   dup    - as clean, but row 2 repeats the Id of row 1
\*   blank  - as clean, but row 2 has an empty Id cell
CsvCell(v, L, col, j) ==
    IF col \in NumericColumns(L) THEN NumericCell(v, ColumnKind(L, col), j)
    ELSE IF col = "Id"
    THEN CASE v = "clean"  -> IdStr(L, j)
           [] v = "ragged" -> IF j = 2 THEN NaN ELSE IdStr(L, j)
           [] v = "dup"    -> IF j = 2 THEN IdStr(L, 1) ELSE IdStr(L, j)
           [] v = "blank"  -> IF j = 2 THEN NaN ELSE IdStr(L, j)
    ELSE LET T == ColumnRef(col) IN
         IF v = "ragged"
         THEN IF j % 2 = 0 THEN NaN
              ELSE IF col \in OptionalColumns THEN IdStr(T, j) ELSE IdStr(T, 0)
         ELSE IF col \in OptionalColumns
              THEN IF j % 2 = 0 THEN IdStr(T, j \div 2) ELSE NaN
              ELSE IdStr(T, IF j = 1 THEN 1 ELSE j - 1)

\* The file of label L: n data rows under a header naming the template's columns
Csv(v, n, L) == [j \in 1..n |-> [col \in Columns(L) |-> CsvCell(v, L, col, j)]]

\* Schema statements by name
ConstraintName(L) ==
    CASE L = "Patient" -> "patient_id"
      [] L = "Encounter" -> "encounter_id"
      [] L = "Organization" -> "organization_id"
      [] L = "Provider" -> "provider_id"
      [] L = "Payer" -> "payer_id"
      [] L = "CarePlan" -> "careplan_id"
      [] L = "Claim" -> "claim_id"
      [] L = "ClaimTransaction" -> "transaction_id"

IndexName(ix) ==
    CASE ix = <<"Patient", "ssn">> -> "patient_ssn"
      [] ix = <<"Encounter", "start">> -> "encounter_date"
      [] ix = <<"Condition", "code">> -> "condition_code"
      [] ix = <<"Medication", "code">> -> "medication_code"
      [] ix = <<"Procedure", "code">> -> "procedure_code"

ConstraintNames == { ConstraintName(ConstraintList[j]) : j \in DOMAIN ConstraintList }
IndexNames == { IndexName(IndexList[j]) : j \in DOMAIN IndexList }

\* What a server may refuse: nothing, the constraint statements, the index
\* statements
RejectChoices == { {}, ConstraintNames, IndexNames }

----------------------------------------------------------------------------
(* pandas and Cypher, as the loader uses them *)

\* df.fillna('')
FillNa(cell) == IF cell = NaN THEN "" ELSE cell

\* records = df.fillna('').to_dict('records')
Records(frame) ==
    [j \in DOMAIN frame |-> [col \in DOMAIN frame[j] |-> FillNa(frame[j][col])]]

\* Mutant of Slice: the slice stops one record early
SliceShort(records, a, size) == SubSeq(records, a + 1, Min(a + size - 1, Len(records)))

\* records[a : a + size]
Slice(records, a, size) == SubSeq(records, a + 1, Min(a + size, Len(records)))

\* Mutant of NextOffset: the loop steps over one record between batches
NextOffsetSkips(a, size) == a + size + 1

\* range(0, len(records), self.batch_size): the offset after a
NextOffset(a, size) == a + size

\* row.COL in Cypher: null when the map has no such key
Cell(row, col) == IF col \in DOMAIN row THEN row[col] ELSE Null

\* n.prop in Cypher: null when the node has no such property
Prop(node, prop) == IF prop \in DOMAIN node.props THEN node.props[prop] ELSE Null

\* Mutant of ToFloat: what cannot be read as a number becomes zero
ToFloatOrZero(x) ==
    CASE x = Null -> Null
      [] x \in Floats -> x
      [] x = "i:12" -> "f:12.0"
      [] x = "i:7" -> "f:7.0"
      [] x = "i:0" -> "f:0.0"
      [] x = "12.5" -> "f:12.5"
      [] x = "7" -> "f:7.0"
      [] x = "0" -> "f:0.0"
      [] OTHER -> "f:0.0"

\* Cypher toFloat(x): a number as a float, a string by parsing it, null for
\* null and for a string that does not parse (the empty string included)
ToFloat(x) ==
    CASE x = Null -> Null
      [] x \in Floats -> x
      [] x = "i:12" -> "f:12.0"
      [] x = "i:7" -> "f:7.0"
      [] x = "i:0" -> "f:0.0"
      [] x = "12.5" -> "f:12.5"
      [] x = "7" -> "f:7.0"
      [] x = "0" -> "f:0.0"
      [] OTHER -> Null

\* Cypher toInteger(x): a float truncated, a string by parsing it, null for
\* null and for a string that does not parse (the empty string included)
ToInteger(x) ==
    CASE x = Null -> Null
      [] x \in Ints -> x
      [] x = "f:12.5" -> "i:12"
      [] x = "f:7.0" -> "i:7"
      [] x = "f:0.0" -> "i:0"
      [] x = "12.5" -> "i:12"
      [] x = "7" -> "i:7"
      [] x = "0" -> "i:0"
      [] OTHER -> Null

Coerce(kind, x) == IF kind = "float" THEN ToFloat(x) ELSE ToInteger(x)

\* The property map of CREATE (x:L {prop: row.COL, prop: toFloat(row.COL), ...})
PropertyMap(L, row) ==
    [p \in Props(L) \cup NumericProps(L) |->
        IF p \in Props(L)
        THEN Cell(row, Template(L)[CHOOSE j \in DOMAIN Template(L) :
                                       Template(L)[j].prop = p].col)
        ELSE LET e == NumericTemplate(L)[CHOOSE j \in DOMAIN NumericTemplate(L) :
                                           NumericTemplate(L)[j].prop = p]
             IN Coerce(e.kind, Cell(row, e.col))]

\* CREATE (x:L {...}) for one row: a property given null is not stored
NewNode(L, row) ==
    LET m == PropertyMap(L, row) IN
    [label |-> L,
     props |-> [p \in { q \in DOMAIN m : m[q] # Null } |-> m[p]]]

\* UNWIND $rows AS row CREATE (...)
CreateAll(L, rows) == [j \in DOMAIN rows |-> NewNode(L, rows[j])]

NodesOf(ns, L) == { x \in DOMAIN ns : ns[x].label = L }

\* REQUIRE x.id IS UNIQUE, over the nodes of L that have an id
UniqueIds(ns, L) ==
    \A a, b \in NodesOf(ns, L) :
        (a # b /\ Prop(ns[a], "id") # Null) => Prop(ns[a], "id") # Prop(ns[b], "id")

\* Mutant of CreateViolates: uniqueness is checked among the rows of the
\* statement only, not against the nodes already stored
CreateViolatesInBatch(ns, cs, L, rows) == L \in cs /\ ~UniqueIds(CreateAll(L, rows), L)

\* The statement fails as a whole when a constraint in force would be broken
CreateViolates(ns, cs, L, rows) == L \in cs /\ ~UniqueIds(ns \o CreateAll(L, rows), L)

\* Mutant of MatchPairs: the second MATCH lacks its {id: s.fk} map
MatchPairsAnyId(r, ns) ==
    { st \in NodesOf(ns, r.src) \X NodesOf(ns, r.tgt) :
        r.notnull => Prop(ns[st[1]], r.fk) # Null }

\* MATCH (s:src) [WHERE s.fk IS NOT NULL] MATCH (t:tgt {id: s.fk})
MatchPairs(r, ns) ==
    { st \in NodesOf(ns, r.src) \X NodesOf(ns, r.tgt) :
        /\ r.notnull => Prop(ns[st[1]], r.fk) # Null
        /\ Prop(ns[st[1]], r.fk) # Null
        /\ Prop(ns[st[2]], "id") = Prop(ns[st[1]], r.fk) }

\* (s)-[:type]->(t) or (t)-[:type]->(s)
EdgeOf(r, st) == IF r.out THEN <<r.type, st[1], st[2]>> ELSE <<r.type, st[2], st[1]>>

\* Mutant of Merge: CREATE in place of MERGE, one more relationship for
\* every matched pair
CreateRel(r, ns, es) ==
    LET want == { EdgeOf(r, st) : st \in MatchPairs(r, ns) } IN
    [e \in (DOMAIN es) \cup want |->
        (IF e \in DOMAIN es THEN es[e] ELSE 0) + (IF e \in want THEN 1 ELSE 0)]

\* MERGE: one relationship for every matched pair that has none of this type
Merge(r, ns, es) ==
    LET want == { EdgeOf(r, st) : st \in MatchPairs(r, ns) } IN
    es @@ [e \in want \ DOMAIN es |-> 1]

RECURSIVE SumOver(_, _)
SumOver(f, S) ==
    IF S = {} THEN 0
    ELSE LET x == CHOOSE y \in S : TRUE IN f[x] + SumOver(f, S \ {x})

\* count(*) of the relationships of one type
RelCount(es, type) == SumOver(es, { e \in DOMAIN es : e[1] = type })
\* count(*) of the nodes of one label
NodeCount(ns, L) == Cardinality(NodesOf(ns, L))

RelTypes == { r.type : r \in AllRules }

\* Mutant of SortDesc: ORDER BY count, ascending
RECURSIVE SortAsc(_, _)
SortAsc(f, S) ==
    IF S = {} THEN << >>
    ELSE LET x == CHOOSE y \in S : \A z \in S : f[y] <= f[z]
         IN << <<x, f[x]>> >> \o SortAsc(f, S \ {x})

\* ORDER BY count DESC over (key, count) rows
RECURSIVE SortDesc(_, _)
SortDesc(f, S) ==
    IF S = {} THEN << >>
    ELSE LET x == CHOOSE y \in S : \A z \in S : f[y] >= f[z]
         IN << <<x, f[x]>> >> \o SortDesc(f, S \ {x})

----------------------------------------------------------------------------
(* Control *)

Label == EntityOrder[ent]

At(p, e, j) == [pc |-> p, ent |-> e, k |-> j]

AfterEntity(e) ==
    IF e < Len(EntityOrder) THEN At("read", e + 1, 1) ELSE At("stats", 0, 1)

AfterNodes(e) ==
    IF Rules(EntityOrder[e]) # << >> THEN At("rels", e, 1) ELSE AfterEntity(e)

AfterRule(e, j) ==
    IF j < Len(Rules(EntityOrder[e])) THEN At("rels", e, j + 1) ELSE AfterEntity(e)

Goto(p) == pc' = p.pc /\ ent' = p.ent /\ k' = p.k

Logged(op, arg) == log' = Append(log, [op |-> op, arg |-> arg])

\* Mutant of Raise: the exception is logged and the load goes on
RaiseAndContinue(e) ==
    /\ status' = "aborted"
    /\ error' = e
    /\ closes' = closes
    /\ UNCHANGED <<pc, ent, k>>

\* Mutant of Raise: main without its finally clause, the script ends with the
\* driver open
RaiseUnclosed(e) ==
    /\ status' = "aborted"
    /\ error' = e
    /\ closes' = closes
    /\ pc' = "ended"
    /\ UNCHANGED <<ent, k>>

\* An exception leaves load_all_data: main logs it and its finally clause
\* closes the driver
Raise(e) ==
    /\ status' = "aborted"
    /\ error' = e
    /\ closes' = closes + 1
    /\ pc' = "closed"
    /\ UNCHANGED <<ent, k>>

\* Mutant of SchemaWarn: the exception of a schema statement is not caught
SchemaRaise(next) == Raise("schema")

\* The except clause of the loops of create_constraints and create_indexes:
\* a warning is logged and the loop goes on with the next statement
SchemaWarn(next) ==
    /\ Goto(next)
    /\ UNCHANGED <<status, error, closes>>

\* session.run(statement) of a schema statement raises
StatementFails(name) == name \in rejects

\* The API process before uvicorn has started it
ServiceInit ==
    /\ chatbot = 0
    /\ built = 0
    /\ handed = << >>
    /\ server = "stopped"
    /\ ws = "none"
    /\ sent = << >>
    /\ inbox = << >>
    /\ conns = 0
    /\ posts = << >>

\* The console before its main has started
ConsoleInit ==
    /\ cli = "start"
    /\ transcript = << >>

\* The loader before main has started, on an empty store
LoaderInit ==
    /\ nodes = << >>
    /\ edges = << >>
    /\ constraints = {}
    /\ indexes = {}
    /\ pc = "idle"
    /\ ent = 0
    /\ k = 1
    /\ i = 0
    /\ df = << >>
    /\ run = 0
    /\ status = "idle"
    /\ closes = 0
    /\ error = ""
    /\ report = << >>
    /\ loaded = {}
    /\ log = << >>
    /\ batches = << >>
    /\ atStart = [nodes |-> << >>, edges |-> << >>]

Init ==
    /\ batch_size \in 1..MaxBatch
    /\ csv_n \in 0..MaxRows
    /\ variant \in Variants
    /\ rejects \in RejectChoices
    /\ LoaderInit
    /\ ServiceInit
    /\ ConsoleInit

\* clear_database: MATCH (n) DETACH DELETE n leaves no node and, the
\* relationships being deleted with their nodes, no relationship
clear_database == [nodes |-> << >>, edges |-> << >>]

\* Mutant of Main: the call of clear_database, commented out in main, is made
MainClearing ==
    /\ pc = "idle" \/ (pc = "closed" /\ status = "complete")
    /\ run < MaxRuns
    /\ run' = run + 1
    /\ status' = "running"
    /\ Goto(At("constraints", 0, 1))
    /\ i' = 0
    /\ df' = << >>
    /\ closes' = 0
    /\ error' = ""
    /\ report' = << >>
    /\ loaded' = {}
    /\ log' = << >>
    /\ batches' = << >>
    /\ nodes' = clear_database.nodes
    /\ edges' = clear_database.edges
    /\ atStart' = clear_database
    /\ UNCHANGED <<service, console>>
    /\ UNCHANGED <<config, constraints, indexes>>

\* main: a loader is constructed and load_all_data starts. The script is run
\* again only after a run that completed.
Main ==
    /\ pc = "idle" \/ (pc = "closed" /\ status = "complete")
    /\ run < MaxRuns
    /\ run' = run + 1
    /\ status' = "running"
    /\ Goto(At("constraints", 0, 1))
    /\ i' = 0
    /\ df' = << >>
    /\ closes' = 0
    /\ error' = ""
    /\ report' = << >>
    /\ loaded' = {}
    /\ log' = << >>
    /\ batches' = << >>
    /\ atStart' = [nodes |-> nodes, edges |-> edges]
    /\ UNCHANGED <<service, console>>
    /\ UNCHANGED <<config, store>>

\* Mutant of CreateConstraint: the statements lack IF NOT EXISTS and the loop
\* does not catch what a statement raises
CreateConstraintStrict ==
    /\ pc = "constraints"
    /\ LET L == ConstraintList[k]
           next == IF k < Len(ConstraintList) THEN At("constraints", 0, k + 1)
                   ELSE At("indexes", 0, 1)
       IN /\ Logged("constraint", ConstraintName(L))
          /\ IF StatementFails(ConstraintName(L)) \/ ~UniqueIds(nodes, L)
                \/ L \in constraints
             THEN constraints' = constraints /\ Raise("schema")
             ELSE /\ constraints' = constraints \cup {L}
                  /\ Goto(next)
                  /\ UNCHANGED <<status, error, closes>>
    /\ UNCHANGED <<service, console>>
    /\ UNCHANGED <<config, nodes, edges, indexes, i, df, run, report, loaded,
                   batches, atStart>>

\* create_constraints, one statement of its loop. An exception of the
\* statement is caught and logged as a warning.
CreateConstraint ==
    /\ pc = "constraints"
    /\ LET L == ConstraintList[k]
           next == IF k < Len(ConstraintList) THEN At("constraints", 0, k + 1)
                   ELSE At("indexes", 0, 1)
       IN /\ Logged("constraint", ConstraintName(L))
          /\ IF StatementFails(ConstraintName(L)) \/ ~UniqueIds(nodes, L)
             THEN constraints' = constraints /\ SchemaWarn(next)
             ELSE /\ constraints' = constraints \cup {L}
                  /\ Goto(next)
                  /\ UNCHANGED <<status, error, closes>>
    /\ UNCHANGED <<service, console>>
    /\ UNCHANGED <<config, nodes, edges, indexes, i, df, run, report, loaded,
                   batches, atStart>>

\* create_indexes, one statement of its loop
CreateIndex ==
    /\ pc = "indexes"
    /\ LET ix == IndexList[k]
           next == IF k < Len(IndexList) THEN At("indexes", 0, k + 1)
                   ELSE At("read", 1, 1)
       IN /\ Logged("index", IndexName(ix))
          /\ IF StatementFails(IndexName(ix))
             THEN indexes' = indexes /\ SchemaWarn(next)
             ELSE /\ indexes' = indexes \cup {ix}
                  /\ Goto(next)
                  /\ UNCHANGED <<status, error, closes>>
    /\ UNCHANGED <<service, console>>
    /\ UNCHANGED <<config, nodes, edges, constraints, i, df, run, report, loaded,
                   batches, atStart>>

\* load_*: df = pd.read_csv(csv_path), then _load_in_batches starts
ReadCsv ==
    /\ pc = "read"
    /\ df' = Csv(variant, csv_n, Label)
    /\ i' = 0
    /\ batches' = << >>
    /\ IF Len(df') = 0
       THEN Goto(AfterNodes(ent)) /\ loaded' = loaded \cup {Label}
       ELSE Goto(At("nodes", ent, 1)) /\ loaded' = loaded
    /\ Logged("read", Label)
    /\ UNCHANGED <<service, console>>
    /\ UNCHANGED <<config, store, run, status, closes, error, report, atStart>>

\* Mutant of ReadFails: the file is read in pieces and its first batch is
\* written before the failure shows
ReadFailsLate ==
    /\ pc = "read"
    /\ Raise("file")
    /\ nodes' = nodes \o CreateAll(Label, Slice(Records(Csv(variant, csv_n, Label)),
                                                0, batch_size))
    /\ UNCHANGED <<service, console>>
    /\ UNCHANGED <<config, edges, constraints, indexes, i, df, run, report, loaded,
                   log, batches, atStart>>

\* pd.read_csv raises (no such file, unreadable file)
ReadFails ==
    /\ pc = "read"
    /\ Raise("file")
    /\ UNCHANGED <<service, console>>
    /\ UNCHANGED <<config, store, i, df, run, report, loaded, log, batches, atStart>>

\* Mutant of WriteBatch: a failing statement is not atomic, the nodes of the
\* rows before the offending row stay in the store
WriteBatchPartial ==
    /\ pc = "nodes"
    /\ LET records == Records(df)
           batch == Slice(records, i, batch_size)
           kept == CHOOSE n \in 0..Len(batch) :
                     /\ ~CreateViolates(nodes, constraints, Label, SubSeq(batch, 1, n))
                     /\ n < Len(batch) =>
                           CreateViolates(nodes, constraints, Label,
                                          SubSeq(batch, 1, n + 1))
       IN IF CreateViolates(nodes, constraints, Label, batch)
          THEN /\ Raise("constraint")
               /\ nodes' = nodes \o CreateAll(Label, SubSeq(batch, 1, kept))
               /\ UNCHANGED <<i, loaded, log, batches>>
          ELSE /\ nodes' = nodes \o CreateAll(Label, batch)
               /\ i' = NextOffset(i, batch_size)
               /\ batches' = Append(batches, batch)
               /\ Logged("create", Label)
               /\ IF i' < Len(records)
                  THEN Goto(At("nodes", ent, 1)) /\ loaded' = loaded
                  ELSE Goto(AfterNodes(ent)) /\ loaded' = loaded \cup {Label}
               /\ UNCHANGED <<status, error, closes>>
    /\ UNCHANGED <<service, console>>
    /\ UNCHANGED <<config, edges, constraints, indexes, df, run, report, atStart>>

\* _load_in_batches, one turn of its loop: session.run(cypher, rows=batch)
WriteBatch ==
    /\ pc = "nodes"
    /\ LET records == Records(df)
           batch == Slice(records, i, batch_size)
       IN IF CreateViolates(nodes, constraints, Label, batch)
          THEN /\ Raise("constraint")
               /\ UNCHANGED <<nodes, i, loaded, log, batches>>
          ELSE /\ nodes' = nodes \o CreateAll(Label, batch)
               /\ i' = NextOffset(i, batch_size)
               /\ batches' = Append(batches, batch)
               /\ Logged("create", Label)
               /\ IF i' < Len(records)
                  THEN Goto(At("nodes", ent, 1)) /\ loaded' = loaded
                  ELSE Goto(AfterNodes(ent)) /\ loaded' = loaded \cup {Label}
               /\ UNCHANGED <<status, error, closes>>
    /\ UNCHANGED <<service, console>>
    /\ UNCHANGED <<config, edges, constraints, indexes, df, run, report, atStart>>

\* Mutant of RunRelationship: the statement matches only the source nodes that
\* the last batch created
RunRelationshipLastBatch ==
    /\ pc = "rels"
    /\ LET r == Rules(Label)[k]
           fresh == IF batches = << >> THEN {}
                    ELSE (Len(nodes) - Len(batches[Len(batches)]) + 1)..Len(nodes)
           want == { EdgeOf(r, st) :
                        st \in { p \in MatchPairs(r, nodes) : p[1] \in fresh } }
       IN /\ edges' = edges @@ [e \in want \ DOMAIN edges |-> 1]
          /\ Logged("merge", r.type)
    /\ Goto(AfterRule(ent, k))
    /\ UNCHANGED <<service, console>>
    /\ UNCHANGED <<config, nodes, constraints, indexes, i, df, run, status, closes,
                   error, report, loaded, batches, atStart>>

\* Mutant of RunRelationship: a foreign key that names no node of the target
\* label makes the statement fail
RunRelationshipStrict ==
    /\ pc = "rels"
    /\ LET r == Rules(Label)[k]
           unresolved ==
               \E s \in NodesOf(nodes, r.src) :
                   /\ Prop(nodes[s], r.fk) \notin {Null, ""}
                   /\ \A t \in NodesOf(nodes, r.tgt) :
                         Prop(nodes[t], "id") # Prop(nodes[s], r.fk)
       IN /\ Logged("merge", r.type)
          /\ IF unresolved
             THEN edges' = edges /\ Raise("reference")
             ELSE /\ edges' = Merge(r, nodes, edges)
                  /\ Goto(AfterRule(ent, k))
                  /\ UNCHANGED <<status, closes, error>>
    /\ UNCHANGED <<service, console>>
    /\ UNCHANGED <<config, nodes, constraints, indexes, i, df, run, report, loaded,
                   batches, atStart>>

\* One relationship statement of the running load_* method
RunRelationship ==
    /\ pc = "rels"
    /\ LET r == Rules(Label)[k]
       IN /\ edges' = Merge(r, nodes, edges)
          /\ Logged("merge", r.type)
    /\ Goto(AfterRule(ent, k))
    /\ UNCHANGED <<service, console>>
    /\ UNCHANGED <<config, nodes, constraints, indexes, i, df, run, status, closes,
                   error, report, loaded, batches, atStart>>

\* print_statistics: the two count queries; load_all_data returns
PrintStatistics ==
    /\ pc = "stats"
    /\ report' = [nodes |-> SortDesc([L \in Labels |-> NodeCount(nodes, L)],
                                     { L \in Labels : NodeCount(nodes, L) > 0 }),
                  rels |-> SortDesc([t \in RelTypes |-> RelCount(edges, t)],
                                    { t \in RelTypes : RelCount(edges, t) > 0 })]
    /\ Logged("stats", "")
    /\ status' = "complete"
    /\ Goto(At("finally", 0, 1))
    /\ UNCHANGED <<service, console>>
    /\ UNCHANGED <<config, store, i, df, run, closes, error, loaded, batches,
                   atStart>>

\* A store statement of the load or of the statistics fails (connection lost,
\* server error): session.run raises
StoreFails ==
    /\ pc \in {"nodes", "rels", "stats"}
    /\ Raise("store")
    /\ UNCHANGED <<service, console>>
    /\ UNCHANGED <<config, store, i, df, run, report, loaded, log, batches, atStart>>

\* main's finally clause after load_all_data returned: loader.close()
Close ==
    /\ pc = "finally"
    /\ closes' = closes + 1
    /\ pc' = "closed"
    /\ UNCHANGED <<service, console>>
    /\ UNCHANGED <<config, store, ent, k, i, df, run, status, error, report, loaded,
                   log, batches, atStart>>

Next ==
    \/ Main
    \/ CreateConstraint
    \/ CreateIndex
    \/ ReadCsv
    \/ ReadFails
    \/ WriteBatch
    \/ RunRelationship
    \/ PrintStatistics
    \/ StoreFails
    \/ Close

\* Every behaviour: the script may be run again after a completed run
Spec == Init /\ [][Next]_vars

\* main, started once on the empty store
MainOnce == run = 0 /\ Main

NextOneRun ==
    \/ MainOnce
    \/ CreateConstraint
    \/ CreateIndex
    \/ ReadCsv
    \/ ReadFails
    \/ WriteBatch
    \/ RunRelationship
    \/ PrintStatistics
    \/ StoreFails
    \/ Close

\* The behaviours of one run of the script on a store that starts empty
SpecOneRun == Init /\ [][NextOneRun]_vars

\* One run that is not stopped from outside: once load_all_data has returned,
\* main goes on to its finally clause
FairOneRun == SpecOneRun /\ WF_vars(Close)

----------------------------------------------------------------------------
(* synthea_chatbot_gemini.py: SyntheaChatbot.ask *)

\* dict.get(key, default)
Get(d, key, default) == IF key \in DOMAIN d THEN d[key] ELSE default

\* A call that returned v / that raised e
Returned(v) == [raised |-> FALSE, value |-> v, error |-> ""]
Raised(e) ==
    [raised |-> TRUE, error |-> e,
     value |-> [answer |-> None, cypher_query |-> None, raw_results |-> None]]

\* An intermediate step of the chain: a dict with the given keys
Step(keys) ==
    [key \in keys |-> IF key = "query" THEN "MATCH (p:Patient) RETURN count(p)"
                      ELSE "[{'count(p)': 2}]"]

StepsChoices ==
    { << >>,
      << Step({"query"}) >>,
      << Step({"query"}), Step({"context"}) >>,
      << Step({}), Step({}) >>,
      << Step({"query"}), Step({"context"}), Step({"context"}) >> }

\* What self.chain.invoke returns: a dict that may lack either key
ChainResponses ==
    { [key \in keys |-> IF key = "result" THEN "There are 2 patients." ELSE steps] :
        keys \in SUBSET {"result", "intermediate_steps"}, steps \in StepsChoices }

\* self.chain.invoke({"query": question}) returns a response or raises
ChainOutcomes ==
    { [raises |-> FALSE, error |-> "", response |-> r] : r \in ChainResponses }
      \cup { [raises |-> TRUE, error |-> "429 quota exceeded",
              response |-> [key \in {} |-> None]] }

\* ask, the body of its try block after the chain returned
Extract(response) ==
    LET steps == Get(response, "intermediate_steps", << >>) IN
    [answer |-> Get(response, "result", "No answer generated"),
     cypher_query |-> IF Len(steps) > 0 THEN Get(steps[1], "query", None) ELSE None,
     raw_results |-> IF Len(steps) > 1 THEN Get(steps[2], "context", None) ELSE None]

\* Mutant of ask: no except clause, what the chain raises leaves ask
askUncaught(chain) ==
    IF chain.raises THEN Raised(chain.error)
    ELSE Returned(Extract(chain.response))

\* SyntheaChatbot.ask(question), given what the chain does
ask(chain) ==
    IF chain.raises
    THEN Returned([answer |-> "Error processing question: " \o chain.error,
                   cypher_query |-> None,
                   raw_results |-> None])
    ELSE Returned(Extract(chain.response))

\* def ask(self, question)
AskParameters == {"question"}

\* Mutant of Invoke: ask takes any keyword argument
InvokeAnyKeyword(keywords, chain) == ask(chain)

\* bot.ask(question, keyword=..): Python binds the arguments before the body
\* runs and raises TypeError for a keyword that ask does not declare
Invoke(keywords, chain) ==
    IF keywords \subseteq AskParameters THEN ask(chain)
    ELSE Raised("ask() got an unexpected keyword argument 'max_retries'")

\* str.strip()
IsSpace(c) == c \in {" ", "\t", "\n"}

RECURSIVE LStrip(_)
LStrip(s) == IF s # << >> /\ IsSpace(Head(s)) THEN LStrip(Tail(s)) ELSE s

RECURSIVE RStrip(_)
RStrip(s) ==
    IF s # << >> /\ IsSpace(s[Len(s)]) THEN RStrip(SubSeq(s, 1, Len(s) - 1)) ELSE s

Strip(s) == RStrip(LStrip(s))

\* SyntheaChatbot(): returns an instance, raises, or calls sys.exit(1)
Constructions == {"instance", "Exception", "SystemExit"}

----------------------------------------------------------------------------
(* synthea_chatbot_gemini.py: main, the console loop *)

\* What the user types at the prompt
Inputs ==
    { << >>, <<" ">>, <<" ", "h", "i">>, <<"h", "i", "?", " ">>,
      <<"h", "e", "l", "p">>, <<"e", "x", "i", "t">> }

ExitWords == { <<"e", "x", "i", "t">>, <<"q", "u", "i", "t">>, <<"b", "y", "e">> }

\* help, models, clear: commands that print and go back to the prompt
PrintWords == { <<"h", "e", "l", "p">>, <<"m", "o", "d", "e", "l", "s">>,
                <<"c", "l", "e", "a", "r">> }

\* chatbot.ask(question)
ConsoleKeywords == {}

\* main: chatbot = SyntheaChatbot(); a failure ends the program
ConsoleStart ==
    /\ cli = "start"
    /\ \E o \in Constructions : cli' = IF o = "instance" THEN "loop" ELSE "ended"
    /\ UNCHANGED <<transcript, service, loader>>

\* One turn of the loop: input().strip(), then nothing, a command, or ask. A
\* call of ask that raises is printed by the except clause of the loop.
ConsoleTurn ==
    /\ cli = "loop"
    /\ Len(transcript) < MaxAsks
    /\ \E text \in Inputs, c \in ChainOutcomes :
         LET question == Strip(text) IN
         IF question = << >> \/ question \in PrintWords
         THEN UNCHANGED <<cli, transcript>>
         ELSE IF question \in ExitWords
         THEN cli' = "ended" /\ UNCHANGED transcript
         ELSE /\ transcript' = Append(transcript,
                                      [question |-> question, chain |-> c,
                                       response |-> Invoke(ConsoleKeywords, c)])
              /\ UNCHANGED cli
    /\ UNCHANGED <<service, loader>>

\* KeyboardInterrupt at the prompt
ConsoleInterrupt ==
    /\ cli = "loop"
    /\ cli' = "ended"
    /\ UNCHANGED <<transcript, service, loader>>

\* The API and the loader take no part in the console: the loader is as
\* constructed, with the batch size __init__ gives it
LoaderUnused ==
    /\ batch_size = 1000
    /\ csv_n = 0
    /\ variant = "clean"
    /\ rejects = {}
    /\ LoaderInit

\* Before the console or the API process has started
InitServices == LoaderUnused /\ ServiceInit /\ ConsoleInit

ConsoleNext ==
    \/ ConsoleStart
    \/ ConsoleTurn
    \/ ConsoleInterrupt

\* The behaviours of the console program
SpecConsole == InitServices /\ [][ConsoleNext]_vars

----------------------------------------------------------------------------
(* synthea_api.py *)

\* bot.ask(question, max_retries=2)
ApiKeywords == {"max_retries"}

\* Mutant of get_chatbot: no test of the global, every call constructs
get_chatbot_fresh(o) ==
    IF o = "instance"
    THEN [chatbot |-> built + 1, built |-> built + 1, result |-> "instance"]
    ELSE [chatbot |-> chatbot, built |-> built, result |-> o]

\* get_chatbot, when SyntheaChatbot() would end as o: the global and the
\* number of instances after the call, and what the caller gets
get_chatbot(o) ==
    IF chatbot # 0
    THEN [chatbot |-> chatbot, built |-> built, result |-> "instance"]
    ELSE IF o = "instance"
    THEN [chatbot |-> built + 1, built |-> built + 1, result |-> "instance"]
    ELSE [chatbot |-> 0, built |-> built, result |-> o]

\* The effect of a call g of get_chatbot; an instance is handed over only
\* when the call returned
Called(g) ==
    /\ chatbot' = g.chatbot
    /\ built' = g.built
    /\ handed' = Append(handed, [result |-> g.result,
                                 bot |-> IF g.result = "instance" THEN g.chatbot
                                         ELSE 0])

\* The body of a POST /ask request: question is a str
Questions == { <<"h", "i", "?">>, << >> }

\* The texts a client sends on /ws/ask: not JSON, or a JSON object with or
\* without the key question, whose value is a str or not
Text(json, has, str, question) ==
    [json |-> json, has |-> has, str |-> str, question |-> question]

Texts ==
    { Text("invalid", FALSE, FALSE, << >>),
      Text("object", FALSE, FALSE, << >>),
      Text("object", TRUE, TRUE, <<" ", " ">>),
      Text("object", TRUE, TRUE, <<" ", "h", "i", "?">>),
      Text("object", TRUE, FALSE, << >>) }

\* json.loads(data), then message.get("question", "").strip(): the question,
\* or the exception raised on the way
QuestionOf(text) ==
    IF text.json = "invalid" THEN [raises |-> "JSONDecodeError", question |-> << >>]
    ELSE IF ~text.has THEN [raises |-> "", question |-> Strip(<< >>)]
    ELSE IF ~text.str
    THEN [raises |-> "AttributeError: no attribute 'strip'", question |-> << >>]
    ELSE [raises |-> "", question |-> Strip(text.question)]

\* The messages websocket_ask sends
Connected ==
    [type |-> "connected", message |-> "Connected to Synthea Healthcare Chatbot",
     status |-> "ready"]

Processing(question) ==
    [type |-> "processing", message |-> "Processing your question...",
     question |-> question]

Answer(question, response) ==
    [type |-> "answer", question |-> question, answer |-> response.answer,
     cypher_query |-> Get(response, "cypher_query", None),
     raw_results |-> Get(response, "raw_results", None), success |-> TRUE]

ErrorMessage(e) == [type |-> "error", error |-> e, success |-> FALSE]

\* The responses of POST /ask
AnswerResponse(response) ==
    [status |-> 200,
     body |-> [answer |-> response.answer,
               cypher_query |-> Get(response, "cypher_query", None),
               raw_results |-> Get(response, "raw_results", None),
               success |-> TRUE, error |-> None]]

HTTPException(code, detail) == [status |-> code, body |-> [detail |-> detail]]

\* The request got no response: the process ended
NoResponse == [status |-> 0, body |-> [detail |-> "SystemExit"]]

\* startup_event: get_chatbot(), a failure is printed as a warning; sys.exit
\* in SyntheaChatbot() is no Exception and ends the process
startup_event ==
    /\ server = "stopped"
    /\ \E o \in Constructions :
         LET g == get_chatbot(o) IN
         /\ Called(g)
         /\ server' = IF g.result = "SystemExit" THEN "exited" ELSE "serving"
    /\ UNCHANGED <<ws, sent, inbox, conns, posts, console, loader>>

\* POST /ask
ask_question ==
    /\ server = "serving"
    /\ Len(posts) < MaxPosts
    /\ \E q \in Questions, o \in Constructions, c \in ChainOutcomes :
         LET g == get_chatbot(o)
             r == Invoke(ApiKeywords, c)
             reply == IF g.result = "SystemExit" THEN NoResponse
                      ELSE IF g.result # "instance" THEN HTTPException(500, g.result)
                      ELSE IF r.raised THEN HTTPException(500, r.error)
                      ELSE AnswerResponse(r.value)
         IN /\ Called(g)
            /\ server' = IF g.result = "SystemExit" THEN "exited" ELSE server
            /\ posts' = Append(posts, [question |-> q, bot |-> g.chatbot,
                                       status |-> reply.status, body |-> reply.body])
    /\ UNCHANGED <<ws, sent, inbox, conns, console, loader>>

\* websocket_ask: await websocket.accept()
WsAccept ==
    /\ server = "serving"
    /\ ws \in {"none", "ended"}
    /\ conns < MaxConnections
    /\ conns' = conns + 1
    /\ ws' = "accepted"
    /\ sent' = << >>
    /\ inbox' = << >>
    /\ UNCHANGED <<chatbot, built, handed, server, posts, console, loader>>

\* Mutant of WsWelcome: no welcome message
WsWelcomeSilent ==
    /\ server = "serving"
    /\ ws = "accepted"
    /\ ws' = "welcomed"
    /\ UNCHANGED <<chatbot, built, handed, server, sent, inbox, conns, posts,
                   console, loader>>

\* websocket_ask: the welcome message
WsWelcome ==
    /\ server = "serving"
    /\ ws = "accepted"
    /\ sent' = Append(sent, Connected)
    /\ ws' = "welcomed"
    /\ UNCHANGED <<chatbot, built, handed, server, inbox, conns, posts, console,
                   loader>>

\* websocket_ask: bot = get_chatbot(); a failure is caught by the outer
\* except clause, which sends a server error and lets the handler return
WsGetChatbot ==
    /\ server = "serving"
    /\ ws = "welcomed"
    /\ \E o \in Constructions :
         LET g == get_chatbot(o) IN
         /\ Called(g)
         /\ CASE g.result = "instance" ->
                   ws' = "receive" /\ UNCHANGED <<sent, server>>
              [] g.result = "Exception" ->
                   /\ ws' = "ended"
                   /\ sent' = Append(sent, ErrorMessage("Server error: " \o g.result))
                   /\ UNCHANGED server
              [] g.result = "SystemExit" ->
                   ws' = "ended" /\ server' = "exited" /\ UNCHANGED sent
    /\ UNCHANGED <<inbox, conns, posts, console, loader>>

\* Mutant of WsReceive: no inner try, a text that cannot be handled ends the
\* handler
WsReceiveFragile ==
    /\ server = "serving"
    /\ ws = "receive"
    /\ Len(inbox) < MaxMessages
    /\ \E text \in Texts :
         LET parsed == QuestionOf(text) IN
         /\ inbox' = Append(inbox, text)
         /\ IF parsed.raises # ""
            THEN /\ sent' = Append(sent, ErrorMessage("Server error: " \o parsed.raises))
                 /\ ws' = "ended"
            ELSE IF parsed.question = << >>
            THEN /\ sent' = Append(sent, ErrorMessage("Question cannot be empty"))
                 /\ ws' = "receive"
            ELSE /\ sent' = Append(sent, Processing(parsed.question))
                 /\ ws' = "answering"
    /\ UNCHANGED <<chatbot, built, handed, server, conns, posts, console, loader>>

\* websocket_ask: a text arrives, is parsed, and is answered with an error
\* or with the processing message
WsReceive ==
    /\ server = "serving"
    /\ ws = "receive"
    /\ Len(inbox) < MaxMessages
    /\ \E text \in Texts :
         LET parsed == QuestionOf(text) IN
         /\ inbox' = Append(inbox, text)
         /\ IF parsed.raises = "JSONDecodeError"
            THEN /\ sent' = Append(sent, ErrorMessage("Invalid JSON format."))
                 /\ ws' = "receive"
            ELSE IF parsed.raises # ""
            THEN /\ sent' = Append(sent, ErrorMessage(parsed.raises))
                 /\ ws' = "receive"
            ELSE IF parsed.question = << >>
            THEN /\ sent' = Append(sent, ErrorMessage("Question cannot be empty"))
                 /\ ws' = "receive"
            ELSE /\ sent' = Append(sent, Processing(parsed.question))
                 /\ ws' = "answering"
    /\ UNCHANGED <<chatbot, built, handed, server, conns, posts, console, loader>>

\* websocket_ask: bot.ask(question, max_retries=2), then the answer message,
\* or the error message of the inner except clause
WsAnswer ==
    /\ server = "serving"
    /\ ws = "answering"
    /\ \E c \in ChainOutcomes :
         LET question == QuestionOf(inbox[Len(inbox)]).question
             r == Invoke(ApiKeywords, c)
         IN sent' = Append(sent, IF r.raised THEN ErrorMessage(r.error)
                                 ELSE Answer(question, r.value))
    /\ ws' = "receive"
    /\ UNCHANGED <<chatbot, built, handed, server, inbox, conns, posts, console,
                   loader>>

\* The client goes away: receive_text raises WebSocketDisconnect
WsDisconnect ==
    /\ server = "serving"
    /\ ws = "receive"
    /\ ws' = "ended"
    /\ UNCHANGED <<chatbot, built, handed, server, sent, inbox, conns, posts,
                   console, loader>>

ServiceNext ==
    \/ startup_event
    \/ ask_question
    \/ WsAccept
    \/ WsWelcome
    \/ WsGetChatbot
    \/ WsReceive
    \/ WsAnswer
    \/ WsDisconnect

\* The behaviours of the API process
SpecService == InitServices /\ [][ServiceNext]_vars

----------------------------------------------------------------------------
(* Properties *)

RECURSIVE Flatten(_)
Flatten(ss) == IF ss = << >> THEN << >> ELSE Head(ss) \o Flatten(Tail(ss))

CeilDiv(m, b) == (m + b - 1) \div b

FirstRunComplete == run = 1 /\ status = "complete"

\* C1: after a first run that completed, on a store that was empty, every one
\* of the 18 labels has exactly as many nodes as its file has rows.
NodesPerRow ==
    FirstRunComplete =>
        \A L \in Labels : NodeCount(nodes, L) = Len(Csv(variant, csv_n, L))

\* A completed first run over files longer than one batch
NodesPerRowWitness ==
    /\ FirstRunComplete
    /\ csv_n > batch_size
    /\ NodeCount(nodes, "ClaimTransaction") = csv_n

\* The node pass of the file last read has run to its end
NodePassDone == status \in {"running", "complete"} /\ pc # "nodes"

\* C2: for M records and batch size B the node pass issues ceil(M / B) writes,
\* none of more than B records, and the batches in the order issued
\* concatenate to the record sequence.
BatchPartition ==
    NodePassDone =>
        /\ Len(batches) = CeilDiv(Len(df), batch_size)
        /\ \A b \in DOMAIN batches : Len(batches[b]) <= batch_size
        /\ Flatten(batches) = Records(df)

\* A node pass that ended with a batch that is not full
BatchPartitionWitness ==
    /\ NodePassDone
    /\ Len(df) % batch_size # 0
    /\ Len(batches) = CeilDiv(Len(df), batch_size)
    /\ Len(batches[Len(batches)]) < batch_size

AllConstrained == \A j \in DOMAIN ConstraintList : ConstraintList[j] \in constraints

\* A node of the store that the running run created
IsNew(x) == x > Len(atStart.nodes)

\* C3 as claimed: a second run leaves the number of relationships of every
\* type as the first run left it.
RerunKeepsRelCounts ==
    run >= 2 => \A t \in RelTypes : RelCount(edges, t) = RelCount(atStart.edges, t)

\* C3, amended: a second run keeps every relationship it found, adds no
\* second one between the same two nodes, and adds relationships only to or
\* from nodes it created itself; with all eight uniqueness constraints in
\* force it adds none at all.
RerunRelationships ==
    run >= 2 =>
        /\ edges = atStart.edges @@ edges
        /\ \A e \in (DOMAIN edges) \ (DOMAIN atStart.edges) : IsNew(e[2]) \/ IsNew(e[3])
        /\ AllConstrained => edges = atStart.edges

\* A second run has ended on a store that holds relationships, with the
\* constraints in force
RerunRelationshipsWitness ==
    /\ run = 2
    /\ pc = "closed"
    /\ AllConstrained
    /\ DOMAIN edges # {}
    /\ edges = atStart.edges

\* C4 as claimed: re-running the load succeeds for every label, identified
\* or not, and doubles its node count.
RerunDoublesNodes ==
    run = 2 =>
        /\ error # "constraint"
        /\ \A L \in loaded : NodeCount(nodes, L) = 2 * NodeCount(atStart.nodes, L)

\* C4, amended: the loader creates unconditionally, the store refuses. In a
\* second run a label whose uniqueness constraint is in force gains no node
\* (its first batch fails on the repeated identifier) and no two of its
\* nodes share an identifier; a label without a constraint in force is
\* loaded once more in full, its count growing by the rows of its file.
RerunNodes ==
    /\ \A L \in constraints : UniqueIds(nodes, L)
    /\ error = "constraint" => Label \in constraints
    /\ run >= 2 =>
          \A L \in Labels :
              /\ L \in constraints =>
                    NodeCount(nodes, L) = NodeCount(atStart.nodes, L)
              /\ (L \notin constraints /\ L \in loaded) =>
                    NodeCount(nodes, L) =
                        NodeCount(atStart.nodes, L) + Len(Csv(variant, csv_n, L))

\* A second run stopped by the Patient constraint, the count as it was
RerunNodesWitness ==
    /\ run = 2
    /\ error = "constraint"
    /\ Label = "Patient"
    /\ NodeCount(nodes, "Patient") = csv_n
    /\ csv_n > 0

LastLogged == log[Len(log)]

RuleByType == [t \in RelTypes |-> CHOOSE r \in AllRules : r.type = t]

RuleOfType(t) == RuleByType[t]

\* C5: a relationship statement run a second time, no node created in
\* between, leaves the relationships as they are; there is never more than
\* one relationship of a type from one node to another.
MergeIdempotent ==
    /\ edges = [e \in DOMAIN edges |-> 1]
    /\ (log # << >> /\ LastLogged.op = "merge") =>
          Merge(RuleOfType(LastLogged.arg), nodes, edges) = edges

\* A statement has just run and made a relationship
MergeIdempotentWitness ==
    /\ log # << >>
    /\ LastLogged.op = "merge"
    /\ RelCount(edges, LastLogged.arg) > 0
    /\ pc \in {"rels", "read"}

\* C6: every relationship joins two nodes of the store, of the labels of
\* the statement of its type and in its direction, and the foreign-key
\* property of the one equals the id of the other.
EdgesWellFormed ==
    \A e \in DOMAIN edges :
        /\ e[2] \in DOMAIN nodes
        /\ e[3] \in DOMAIN nodes
        /\ e[1] \in RelTypes
        /\ LET r == RuleOfType(e[1])
               s == IF r.out THEN e[2] ELSE e[3]
               t == IF r.out THEN e[3] ELSE e[2]
           IN /\ nodes[s].label = r.src
              /\ nodes[t].label = r.tgt
              /\ Prop(nodes[s], r.fk) # Null
              /\ Prop(nodes[s], r.fk) = Prop(nodes[t], "id")

\* The store holds a relationship from a key holder and one to a key
\* holder, and a node whose key matched nothing
EdgesWellFormedWitness ==
    /\ RelCount(edges, "HAD_ENCOUNTER") > 0
    /\ RelCount(edges, "SECONDARY_INSURANCE") > 0
    /\ \E x \in NodesOf(nodes, "Claim") :
          \A e \in DOMAIN edges : e[1] = "SECONDARY_INSURANCE" => e[2] # x

\* C7: a relationship statement runs only when the node passes of both its
\* labels have finished in this run, and no node of either label is created
\* after it in the run.
RelationshipAfterNodes ==
    /\ pc = "rels" =>
          LET r == Rules(Label)[k] IN r.src \in loaded /\ r.tgt \in loaded
    /\ (log # << >> /\ LastLogged.op = "create") =>
          \A a \in DOMAIN log :
              log[a].op = "merge" =>
                  LET r == RuleOfType(log[a].arg)
                  IN LastLogged.arg # r.src /\ LastLogged.arg # r.tgt

\* The Encounter -> Payer statement has run and matched
RelationshipAfterNodesWitness ==
    /\ log # << >>
    /\ LastLogged = [op |-> "merge", arg |-> "COVERED_BY"]
    /\ RelCount(edges, "COVERED_BY") > 0
    /\ {"Encounter", "Payer"} \subseteq loaded

\* The stages in the order the claim gives them
ExpectedStages ==
    << "constraints", "indexes",
       "Patient", "Organization", "Provider", "Payer",
       "Encounter",
       "Condition", "Medication", "Procedure", "Immunization", "Observation",
       "Allergy", "CarePlan", "Device", "ImagingStudy", "Supply",
       "PayerTransition", "Claim", "ClaimTransaction",
       "stats" >>

StageNames == { ExpectedStages[j] : j \in DOMAIN ExpectedStages }

StageRank ==
    [stage \in StageNames |-> CHOOSE j \in DOMAIN ExpectedStages : ExpectedStages[j] = stage]

StageOf(entry) ==
    CASE entry.op = "constraint" -> "constraints"
      [] entry.op = "index" -> "indexes"
      [] entry.op = "stats" -> "stats"
      [] entry.op = "merge" -> RuleOfType(entry.arg).src
      [] OTHER -> entry.arg

Rank(entry) == StageRank[StageOf(entry)]

\* Inside an entity's stage: the file is read, its nodes are created, its
\* relationship statements run
Phase(entry) ==
    CASE entry.op = "read" -> 1
      [] entry.op = "create" -> 2
      [] entry.op = "merge" -> 3
      [] OTHER -> 0

\* Position of a relationship type among the statements of its entity
RuleIndex ==
    [t \in RelTypes |->
        CHOOSE j \in DOMAIN Rules(RuleOfType(t).src) : Rules(RuleOfType(t).src)[j].type = t]

RuleCount == [L \in Labels |-> Len(Rules(L))]

SchemaStatements == Len(ConstraintList) + Len(IndexList)

SchemaLogged ==
    /\ Len(log) >= SchemaStatements
    /\ \A j \in DOMAIN ConstraintList :
          log[j] = [op |-> "constraint", arg |-> ConstraintName(ConstraintList[j])]
    /\ \A j \in DOMAIN IndexList :
          log[Len(ConstraintList) + j] = [op |-> "index", arg |-> IndexName(IndexList[j])]

\* Entry a closes its stage: a stage of an entity ends with the last
\* relationship statement of that entity, or with its node pass when it has
\* none
ClosesStage(a) ==
    StageOf(log[a]) \in Labels =>
        IF RuleCount[StageOf(log[a])] = 0
        THEN log[a].op \in {"read", "create"}
        ELSE /\ log[a].op = "merge"
             /\ RuleIndex[log[a].arg] = RuleCount[StageOf(log[a])]

\* Entries a and a + 1 of one stage: read, then creates, then the
\* relationship statements of the entity one after the other from the first
InsideStage(a) ==
    /\ Phase(log[a]) <= Phase(log[a + 1])
    /\ log[a + 1].op = "read" => FALSE
    /\ log[a + 1].op = "merge" =>
          RuleIndex[log[a + 1].arg] =
              IF log[a].op = "merge" THEN RuleIndex[log[a].arg] + 1 ELSE 1

\* C8: the statements of a run go through the stages in the one fixed order,
\* none skipped or revisited; the constraint statements, then the index
\* statements, all come before the first write; inside an entity's stage the
\* node pass comes first, then all of that entity's relationship statements,
\* and only then the next entity's stage starts.
FixedStageOrder ==
    /\ log # << >> => Rank(log[1]) = 1
    /\ \A a \in 1..(Len(log) - 1) :
          \/ Rank(log[a + 1]) = Rank(log[a]) /\ InsideStage(a)
          \/ Rank(log[a + 1]) = Rank(log[a]) + 1 /\ ClosesStage(a)
    /\ Len(log) > SchemaStatements => SchemaLogged
    /\ \A a \in DOMAIN log : Rank(log[a]) > 2 => a > SchemaStatements
    /\ status = "complete" => (StageOf(LastLogged) = "stats" /\ ClosesStage(Len(log) - 1))

\* A run went through every stage
FixedStageOrderWitness ==
    /\ status = "complete"
    /\ csv_n > 0
    /\ { StageOf(log[a]) : a \in DOMAIN log } =
          { ExpectedStages[j] : j \in DOMAIN ExpectedStages }

StoreAndReportKept ==
    /\ nodes' = nodes
    /\ edges' = edges
    /\ constraints' = constraints
    /\ indexes' = indexes
    /\ report' = report
    /\ log' = log

\* C9: once an exception has left a stage the run is over: it is closed, no
\* later statement touches the store, and the statistics are not printed.
FailureHalts ==
    /\ [](status = "aborted" => (pc = "closed" /\ report = << >>))
    /\ [][status = "aborted" => StoreAndReportKept]_vars

\* A run stopped by a failing store statement, with part of the data loaded
FailureHaltsWitness ==
    /\ status = "aborted"
    /\ error = "store"
    /\ NodeCount(nodes, "Encounter") > 0
    /\ NodeCount(nodes, "Claim") = 0

\* A schema statement the server refused has been issued in this run
SchemaFailed ==
    \E a \in DOMAIN log :
        log[a].op \in {"constraint", "index"} /\ StatementFails(log[a].arg)

\* C10 as claimed: a failing schema statement aborts the run and no entity
\* load is started.
SchemaFailureFatal ==
    SchemaFailed =>
        /\ status = "aborted"
        /\ \A a \in DOMAIN log : log[a].op \in {"constraint", "index"}

\* C10, amended: a failing schema statement is skipped with a warning. It
\* creates nothing, the other schema statements all run and take effect,
\* the entity loads start, and no run is ever aborted by a schema statement.
SchemaFailureSkipped ==
    /\ \A L \in constraints : ~StatementFails(ConstraintName(L))
    /\ \A ix \in indexes : ~StatementFails(IndexName(ix))
    /\ (run >= 1 /\ pc \notin {"constraints", "indexes"}) =>
          /\ SchemaLogged
          /\ \A j \in DOMAIN ConstraintList :
                ConstraintList[j] \in constraints
                    <=> ~StatementFails(ConstraintName(ConstraintList[j]))
          /\ \A j \in DOMAIN IndexList :
                IndexList[j] \in indexes <=> ~StatementFails(IndexName(IndexList[j]))
    /\ error # "schema"

\* A run completed although the server refused schema statements
SchemaFailureSkippedWitness ==
    /\ SchemaFailed
    /\ status = "complete"
    /\ run = 1
    /\ NodeCount(nodes, "Patient") > 0

----------------------------------------------------------------------------

ConstraintSet == { ConstraintList[j] : j \in DOMAIN ConstraintList }
IndexSet == { IndexList[j] : j \in DOMAIN IndexList }

\* C11: schema setup run again, on a store where it ran before, raises
\* nothing and leaves the constraints and the indexes as the first run left
\* them: each statement of the second setup changes neither set and the run
\* goes on, and where the server refuses nothing the sets are the 8
\* constraints and the 5 indexes all through the second run.
SchemaIdempotent ==
    /\ [](run >= 2 /\ rejects = {} =>
            /\ constraints = ConstraintSet /\ Cardinality(constraints) = 8
            /\ indexes = IndexSet /\ Cardinality(indexes) = 5)
    /\ [][(run >= 2 /\ pc \in {"constraints", "indexes"}) =>
            /\ constraints' = constraints
            /\ indexes' = indexes
            /\ status' = "running"
            /\ error' = ""]_vars

\* The second schema setup has run to its end over 8 constraints and 5 indexes
SchemaIdempotentWitness ==
    /\ run = 2
    /\ pc = "read"
    /\ ent = 1
    /\ status = "running"
    /\ Cardinality(constraints) = 8
    /\ Cardinality(indexes) = 5
    /\ Len(log) = 13

----------------------------------------------------------------------------

\* The run was aborted by the write of a chunk of the file of Label
NodePassFailed ==
    /\ status = "aborted"
    /\ error \in {"constraint", "store"}
    /\ ent >= 1
    /\ Label \notin loaded

CreatesLogged == Len(SelectSeq(log, LAMBDA s : s.op = "create" /\ s.arg = Label))

\* C12: when the write of chunk k of a file fails, the chunks before it were
\* written once each and their nodes are in the store, in row order; chunk k
\* left no node; no further write is issued (the failed chunk is not tried
\* again, the later chunks never); the nodes of the entity types loaded
\* before and the relationships of their statements are still there.
ChunkFailure ==
    NodePassFailed =>
        LET done == SubSeq(Records(df), 1, i) IN
        /\ i < Len(df)
        /\ i % batch_size = 0
        /\ Len(batches) = i \div batch_size
        /\ Flatten(batches) = done
        /\ CreatesLogged = Len(batches)
        /\ NodeCount(nodes, Label) = i
        /\ SubSeq(nodes, Len(nodes) - i + 1, Len(nodes)) = CreateAll(Label, done)
        /\ pc = "closed"
        /\ ~ENABLED WriteBatch
        /\ \A L \in loaded : NodeCount(nodes, L) = Len(Csv(variant, csv_n, L))
        /\ \A r \in AllRules :
              r.src \in loaded =>
                  \A st \in MatchPairs(r, nodes) : EdgeOf(r, st) \in DOMAIN edges

\* The second chunk of a file failed, after other entity types were loaded
ChunkFailureWitness ==
    /\ NodePassFailed
    /\ ent > 1
    /\ i > 0
    /\ i < Len(df)
    /\ NodeCount(nodes, Label) = i
    /\ NodeCount(nodes, "Patient") = csv_n

----------------------------------------------------------------------------

\* The first node of label L in the store
FirstOf(L) == CHOOSE a \in NodesOf(nodes, L) : \A b \in NodesOf(nodes, L) : a <= b

\* The files of each variant, at their longest
Files == [v \in Variants |-> [L \in Labels |-> Csv(v, MaxRows, L)]]

\* The row of its file that node x was created from, in a first run
SourceRow(x) == Files[variant][nodes[x].label][x - FirstOf(nodes[x].label) + 1]

NumericEntries == [L \in Labels |-> NumericTemplate(L)]
StringEntries == [L \in Labels |-> Template(L)]

\* Node x, made from row, has the properties the claim gives it
CoercedAsClaimed(x, L, row) ==
    /\ \A j \in DOMAIN NumericEntries[L] :
          LET e == NumericEntries[L][j]
              v == Prop(nodes[x], e.prop)
          IN /\ row[e.col] = NaN => (v = Null /\ v \notin Zeros)
             /\ row[e.col] \in Floats \cup Ints =>
                   /\ v \in (IF e.kind = "float" THEN Floats ELSE Ints)
                   /\ (v \in Zeros) = (row[e.col] \in Zeros)
    /\ \A j \in DOMAIN StringEntries[L] :
          LET e == StringEntries[L][j]
          IN row[e.col] = NaN => Prop(nodes[x], e.prop) = ""

\* C13: on every node, a numeric property (toFloat or toInteger) whose cell
\* was missing or empty is null and not the number zero, while a number in
\* the cell, zero included, is stored as a number of the property's type;
\* a string property whose cell was missing is the empty string.
MissingToNull ==
    run = 1 => \A x \in DOMAIN nodes : CoercedAsClaimed(x, nodes[x].label, SourceRow(x))

\* A node made from a row whose Id cell and numeric cells were missing, next
\* to a node of a claim transaction without its whole-number columns
MissingToNullWitness ==
    /\ run = 1
    /\ \E x \in NodesOf(nodes, "Patient") :
          /\ SourceRow(x)["INCOME"] = NaN
          /\ SourceRow(x)["Id"] = NaN
          /\ Prop(nodes[x], "income") = Null
          /\ Prop(nodes[x], "id") = ""
    /\ \E x \in NodesOf(nodes, "ClaimTransaction") :
          /\ SourceRow(x)["UNITS"] = NaN
          /\ Prop(nodes[x], "units") = Null

----------------------------------------------------------------------------

\* The row holds text that is not a number in a numeric column of label L
HasNonNumeric(L, row) == \E col \in NumericColumns(L) : row[col] = "abc"

\* C14 as claimed: a row with text that is not a number in a numeric column
\* never becomes a node (its batch fails), and a run over a file with such
\* a row does not complete.
NonNumericFatal ==
    run = 1 =>
        /\ \A x \in DOMAIN nodes : ~HasNonNumeric(nodes[x].label, SourceRow(x))
        /\ status = "complete" =>
              \A L \in Labels : \A j \in 1..csv_n :
                  ~HasNonNumeric(L, Files[variant][L][j])

----------------------------------------------------------------------------

\* The statements with WHERE s.fk IS NOT NULL
NotNullRules == { r \in AllRules : r.notnull }

\* The column a statement's foreign-key property is filled from
FkColumn ==
    [t \in RelTypes |->
        LET r == RuleOfType(t)
            T == Template(r.src)
        IN (CHOOSE e \in { T[j] : j \in DOMAIN T } : e.prop = r.fk).col]

\* The foreign-key cell of the row node s was made from
FkCell(r, s) == SourceRow(s)[FkColumn[r.type]]

\* The relationships of statement r that start or end at its source node s
EdgesAt(r, s) ==
    { e \in DOMAIN edges : e[1] = r.type /\ (IF r.out THEN e[2] ELSE e[3]) = s }

\* The nodes of the target label whose row has the Id cell c
TargetsOf(r, c) ==
    { t \in NodesOf(nodes, r.tgt) : SourceRow(t)["Id"] = c }

\* The source rows of r that name a loaded target: the key cell is there and
\* is the Id cell of a target row
RowsWithTarget(r) ==
    { s \in NodesOf(nodes, r.src) :
        FkCell(r, s) # NaN /\ TargetsOf(r, FkCell(r, s)) # {} }

\* C15 as claimed, for a first run with the eight uniqueness constraints in
\* force (the identifiers of the loaded targets are then distinct): every
\* statement with a non-null-key filter has made as many relationships as
\* there are source rows whose key is the identifier of a loaded target.
FilteredRuleCounts ==
    (FirstRunComplete /\ AllConstrained) =>
        \A r \in NotNullRules :
            RelCount(edges, r.type) = Cardinality(RowsWithTarget(r))

\* C16 as claimed: under a statement with a non-null-key filter a source
\* node whose key cell was empty or missing has no relationship, whatever
\* targets are loaded.
EmptyKeySkipped ==
    run = 1 =>
        \A r \in NotNullRules :
            \A s \in NodesOf(nodes, r.src) :
                FkCell(r, s) = NaN => EdgesAt(r, s) = {}

PrimaryRule == RuleOfType("PRIMARY_INSURANCE")
SecondaryRule == RuleOfType("SECONDARY_INSURANCE")

\* Every claim row names a loaded payer as primary, and every secondary cell
\* that is not empty names a loaded payer
ValidPayers ==
    \A s \in NodesOf(nodes, "Claim") :
        /\ s \in RowsWithTarget(PrimaryRule)
        /\ FkCell(SecondaryRule, s) # NaN => s \in RowsWithTarget(SecondaryRule)

\* C17 as claimed, for a first run with the constraints in force: K claim
\* rows with valid primary payers, J of them with an empty secondary cell,
\* give K Claim nodes, K PRIMARY_INSURANCE and K - J SECONDARY_INSURANCE
\* relationships.
InsuranceCounts ==
    (FirstRunComplete /\ AllConstrained /\ ValidPayers) =>
        LET K == Len(Csv(variant, csv_n, "Claim"))
            J == Cardinality({ s \in NodesOf(nodes, "Claim") :
                                 FkCell(SecondaryRule, s) = NaN })
        IN /\ NodeCount(nodes, "Claim") = K
           /\ RelCount(edges, "PRIMARY_INSURANCE") = K
           /\ RelCount(edges, "SECONDARY_INSURANCE") = K - J

----------------------------------------------------------------------------

HadEncounter == RuleOfType("HAD_ENCOUNTER")

\* Every encounter row names a loaded patient
EncountersReferPatients ==
    NodesOf(nodes, "Encounter") \subseteq RowsWithTarget(HadEncounter)

\* C18 as claimed: after a first run every source node has at most one
\* relationship of each statement's type, and E encounter rows that each
\* name a loaded patient give exactly E HAD_ENCOUNTER relationships.
OnePerSourceRow ==
    FirstRunComplete =>
        /\ \A r \in AllRules : \A s \in NodesOf(nodes, r.src) :
              Cardinality(EdgesAt(r, s)) <= 1
        /\ EncountersReferPatients =>
              RelCount(edges, "HAD_ENCOUNTER") = NodeCount(nodes, "Encounter")

\* The nodes of the target label whose id is the foreign key of s
MatchesOf(r, s) ==
    { t \in NodesOf(nodes, r.tgt) :
        /\ Prop(nodes[s], r.fk) # Null
        /\ Prop(nodes[t], "id") = Prop(nodes[s], r.fk) }

\* C18, amended: after a first run a source node has one relationship of a
\* statement's type for every target node whose id is its key, and no
\* other; with the uniqueness constraints in force that is at most one, and
\* E encounter rows that each name a loaded patient give exactly E
\* HAD_ENCOUNTER relationships.
OnePerMatch ==
    FirstRunComplete =>
        /\ \A r \in AllRules : \A s \in NodesOf(nodes, r.src) :
              /\ EdgesAt(r, s) = { EdgeOf(r, <<s, t>>) : t \in MatchesOf(r, s) }
              /\ AllConstrained => Cardinality(EdgesAt(r, s)) <= 1
        /\ \A e \in DOMAIN edges : e[1] = "HAD_ENCOUNTER" => edges[e] = 1
        /\ (AllConstrained /\ EncountersReferPatients) =>
              RelCount(edges, "HAD_ENCOUNTER") = NodeCount(nodes, "Encounter")

\* Two patients, two encounters that each name a loaded patient, two
\* HAD_ENCOUNTER relationships
OnePerMatchWitness ==
    /\ FirstRunComplete
    /\ AllConstrained
    /\ NodeCount(nodes, "Patient") = 2
    /\ NodeCount(nodes, "Encounter") = 2
    /\ EncountersReferPatients
    /\ RelCount(edges, "HAD_ENCOUNTER") = 2

----------------------------------------------------------------------------

\* The key cell of the row of s is there and is the Id cell of no row of a
\* loaded target
Dangling(r, s) == FkCell(r, s) # NaN /\ TargetsOf(r, FkCell(r, s)) = {}

\* The relationship statement that ran last
LastRule == RuleOfType(LastLogged.arg)

\* C19: a row whose key names no loaded target is no error. The statement
\* that just ran left the nodes of such rows without a relationship and
\* gave one to every node whose row names a loaded target; and a
\* relationship statement that runs ends normally, the run going on to what
\* follows it.
DanglingSkipped ==
    /\ []((run = 1 /\ log # << >> /\ LastLogged.op = "merge") =>
            \A s \in NodesOf(nodes, LastRule.src) :
                /\ Dangling(LastRule, s) => EdgesAt(LastRule, s) = {}
                /\ s \in RowsWithTarget(LastRule) => EdgesAt(LastRule, s) # {})
    /\ [][(pc = "rels" /\ log' # log) =>
            /\ status' = "running"
            /\ error' = ""
            /\ pc' = AfterRule(ent, k).pc
            /\ ent' = AfterRule(ent, k).ent
            /\ k' = AfterRule(ent, k).k]_vars

HasCondition == RuleOfType("HAS_CONDITION")

\* A completed run that met a condition row naming no loaded patient: that
\* node has no HAS_CONDITION relationship, another condition node has one
DanglingSkippedWitness ==
    /\ FirstRunComplete
    /\ \E s \in NodesOf(nodes, "Condition") :
          Dangling(HasCondition, s) /\ EdgesAt(HasCondition, s) = {}
    /\ \E s \in NodesOf(nodes, "Condition") : EdgesAt(HasCondition, s) # {}

----------------------------------------------------------------------------

\* The run was aborted by read_csv on the file of Label
FileFailed == status = "aborted" /\ error = "file"

\* C20: a file that cannot be read aborts the run before anything is
\* written for its entity type. The run made no node of that label and no
\* relationship of its statements, nor anything of the entity types after
\* it; the nodes of the entity types loaded before and the relationships
\* of their statements are in the store; nothing runs afterwards and no
\* statistics are printed.
MissingFileFatal ==
    FileFailed =>
        /\ \A e \in ent..Len(EntityOrder) :
              /\ EntityOrder[e] \notin loaded
              /\ NodeCount(nodes, EntityOrder[e]) =
                     NodeCount(atStart.nodes, EntityOrder[e])
              /\ \A j \in DOMAIN Rules(EntityOrder[e]) :
                     { x \in DOMAIN edges : x[1] = Rules(EntityOrder[e])[j].type }
                         \subseteq DOMAIN atStart.edges
        /\ \A j \in DOMAIN log : log[j].op = "read" => log[j].arg # Label
        /\ loaded = { EntityOrder[e] : e \in 1..(ent - 1) }
        /\ \A L \in loaded :
              NodeCount(nodes, L) =
                  NodeCount(atStart.nodes, L) + Len(Csv(variant, csv_n, L))
        /\ \A r \in AllRules :
              r.src \in loaded =>
                  \A st \in MatchPairs(r, nodes) : EdgeOf(r, st) \in DOMAIN edges
        /\ pc = "closed"
        /\ report = << >>
        /\ ~ENABLED Next

\* encounters.csv could not be read: patients, organizations, providers and
\* payers are loaded, the providers joined to their organizations, and there
\* is no Encounter node
MissingFileFatalWitness ==
    /\ FileFailed
    /\ Label = "Encounter"
    /\ csv_n > 0
    /\ NodeCount(nodes, "Patient") = csv_n
    /\ NodeCount(nodes, "Payer") = csv_n
    /\ RelCount(edges, "EMPLOYED_BY") > 0
    /\ NodeCount(nodes, "Encounter") = 0

----------------------------------------------------------------------------
(* C21 *)

Stopped == status \in {"complete", "aborted"}

\* C21: every run of main ends with the driver closed exactly once, whether
\* load_all_data returned or raised at any stage; the driver is closed only
\* when the pipeline has stopped, and once it is closed the run issues no
\* further statement and the store stays as it is.
ClosedOnce ==
    /\ [](closes <= 1)
    /\ [](closes = 1 <=> pc = "closed")
    /\ [](closes = 1 => Stopped)
    /\ [](status = "aborted" => closes = 1)
    /\ [][closes = 1 /\ run' = run => log' = log /\ store' = store]_vars
    /\ (status = "complete" ~> closes = 1)

ClosedOnceWitness ==
    /\ pc = "closed"
    /\ closes = 1
    /\ status = "aborted"
    /\ error = "store"
    /\ loaded # {}

----------------------------------------------------------------------------
(* C22 *)

\* C22: no step of main or load_all_data deletes a node or a relationship or
\* changes a node that exists: every step leaves the nodes there are, with
\* their properties, as a prefix of the nodes after it, and every
\* relationship there is stays, with its multiplicity. The store shrinks
\* only through clear_database, which no step calls.
StoreOnlyGrows ==
    [][/\ Len(nodes) <= Len(nodes')
       /\ SubSeq(nodes', 1, Len(nodes)) = nodes
       /\ edges @@ edges' = edges'
       /\ <<nodes', edges'>> # <<clear_database.nodes, clear_database.edges>>
          \/ <<nodes, edges>> = <<clear_database.nodes, clear_database.edges>>]_vars

StoreOnlyGrowsWitness ==
    /\ run = 2
    /\ atStart.nodes # << >>
    /\ DOMAIN atStart.edges # {}
    /\ Len(nodes) > Len(atStart.nodes)
    /\ pc = "rels"

----------------------------------------------------------------------------
(* C23 *)

NonIncreasing(rows) ==
    \A a, b \in DOMAIN rows : a < b => rows[a][2] >= rows[b][2]

RowsOf(rows) == { rows[j] : j \in DOMAIN rows }

\* the rows MATCH (n) RETURN labels(n)[0], count(*) yields on the store
NodeRows ==
    { <<L, NodeCount(nodes, L)>> : L \in { nodes[x].label : x \in DOMAIN nodes } }

\* the rows MATCH ()-[r]->() RETURN type(r), count(*) yields on the store
RelRows == { <<t, RelCount(edges, t)>> : t \in { e[1] : e \in DOMAIN edges } }

StatisticsIssued == log # << >> /\ LastLogged.op = "stats"

----------------------------------------------------------------------------
(* C30 *)

RECURSIVE MergeAll(_, _, _)
MergeAll(rules, ns, es) ==
    IF rules = << >> THEN es
    ELSE MergeAll(Tail(rules), ns, Merge(Head(rules), ns, es))

\* load_all_data with every file written as a single batch: what a batch size
\* no smaller than the longest file makes of the loop of _load_in_batches
RECURSIVE LoadWhole(_, _, _, _)
LoadWhole(e, files, ns, es) ==
    IF e > Len(EntityOrder) THEN [nodes |-> ns, edges |-> es]
    ELSE LET L == EntityOrder[e]
             all == ns \o CreateAll(L, Records(files[L]))
         IN LoadWhole(e + 1, files, all, MergeAll(Rules(L), all, es))

OneBatchStore ==
    [v \in Variants |->
        [n \in 0..MaxRows |->
            LoadWhole(1, [L \in Labels |-> Csv(v, n, L)], << >>, << >>)]]

\* C30: a load of an empty store that completed has produced, whatever the
\* batch size, the nodes and the relationships that the same files produce
\* when each is written as one batch; so any two batch sizes under which the
\* load completes leave the same nodes per label and the same relationships
\* per type.
BatchSizeIrrelevant ==
    FirstRunComplete =>
        /\ nodes = OneBatchStore[variant][csv_n].nodes
        /\ edges = OneBatchStore[variant][csv_n].edges

BatchSizeIrrelevantWitness ==
    /\ FirstRunComplete
    /\ batch_size < csv_n
    /\ variant = "ragged"
    /\ \E e \in DOMAIN edges : e[2] > 1 /\ e[3] > 1

----------------------------------------------------------------------------
(* C29 *)

ResultKeys == {"answer", "cypher_query", "raw_results"}

\* the intermediate steps a chain response carries
StepsOf(response) ==
    IF "intermediate_steps" \in DOMAIN response THEN response["intermediate_steps"]
    ELSE << >>

\* C29: whatever the chain does, ask returns and does not raise; what it
\* returns is a dict with exactly the keys answer, cypher_query and
\* raw_results. When the chain raised, the answer is 'Error processing
\* question: ' followed by the text of the exception and the other two are
\* None. When the chain returned, cypher_query is the query of the first
\* intermediate step and raw_results the context of the second, each None
\* when the response has no such step.
AskNeverRaises ==
    \A j \in DOMAIN transcript :
        LET call == transcript[j]
            out == call.response.value
            steps == StepsOf(call.chain.response)
        IN /\ ~call.response.raised
           /\ DOMAIN out = ResultKeys
           /\ call.chain.raises =>
                 /\ out.answer = "Error processing question: " \o call.chain.error
                 /\ out.cypher_query = None
                 /\ out.raw_results = None
           /\ ~call.chain.raises =>
                 /\ Len(steps) = 0 => out.cypher_query = None
                 /\ Len(steps) < 2 => out.raw_results = None
                 /\ (Len(steps) > 0 /\ "query" \in DOMAIN steps[1]) =>
                       out.cypher_query = steps[1]["query"]
                 /\ (Len(steps) > 1 /\ "context" \in DOMAIN steps[2]) =>
                       out.raw_results = steps[2]["context"]

AskNeverRaisesWitness ==
    /\ Len(transcript) = 2
    /\ transcript[1].chain.raises
    /\ ~transcript[2].chain.raises
    /\ Len(StepsOf(transcript[2].chain.response)) = 1
    /\ transcript[2].response.value.cypher_query # None

----------------------------------------------------------------------------
(* C24 *)

\* C24: a POST /ask request that has a chatbot to ask is answered with status
\* 200 and success = True, carrying the answer, cypher_query and raw_results
\* of the dict ask returned; status 500 is produced only when the chatbot
\* could not be constructed.
PostAskAnswers ==
    \A j \in DOMAIN posts :
        posts[j].bot # 0 =>
            /\ posts[j].status = 200
            /\ posts[j].body.success
            /\ DOMAIN posts[j].body
                  = ResultKeys \cup {"success", "error"}

----------------------------------------------------------------------------
(* C25 *)

\* C25: on /ws/ask the processing message of a question is followed by an
\* answer message with success = True: once the reply to a question has been
\* sent, the message after its processing message is its answer.
QuestionsAnswered ==
    \A j \in DOMAIN sent :
        (sent[j].type = "processing" /\ j < Len(sent)) =>
            /\ sent[j + 1].type = "answer"
            /\ sent[j + 1].success
            /\ sent[j + 1].question = sent[j].question

----------------------------------------------------------------------------
(* C26 *)

\* C26: on a connection that /ws/ask accepted, nothing is sent and no text is
\* read before the welcome message; the first message sent has type
\* connected and status ready, and no later message of the connection has
\* type connected.
WelcomeFirst ==
    /\ ws \in {"none", "accepted"} => sent = << >> /\ inbox = << >>
    /\ ws \in {"welcomed", "receive", "answering"} => sent # << >>
    /\ sent # << >> =>
          /\ sent[1].type = "connected"
          /\ sent[1].status = "ready"
          /\ \A j \in 2..Len(sent) : sent[j].type # "connected"
    /\ inbox # << >> => sent # << >>

WelcomeFirstWitness ==
    /\ conns = 2
    /\ ws = "receive"
    /\ Len(inbox) = 2
    /\ Len(sent) = 4

----------------------------------------------------------------------------
(* C27 *)

\* C27: at most one SyntheaChatbot is ever constructed in the process; the
\* global is unset exactly as long as none has been; once a call of
\* get_chatbot has returned an instance every later call returns that same
\* instance, which is the global; a call whose construction failed leaves
\* the global unset, and a later call constructs again.
OneChatbot ==
    /\ built <= 1
    /\ chatbot = built
    /\ \A a \in DOMAIN handed :
          handed[a].result = "instance" =>
              /\ handed[a].bot = chatbot
              /\ chatbot # 0
              /\ \A b \in DOMAIN handed : a < b => handed[b] = handed[a]
    /\ (handed # << >> /\ handed[Len(handed)].result # "instance") => chatbot = 0

OneChatbotWitness ==
    /\ Len(handed) >= 4
    /\ handed[1].result = "Exception"
    /\ handed[2].result = "Exception"
    /\ handed[3].result = "instance"
    /\ handed[4].result = "instance"
    /\ built = 1

----------------------------------------------------------------------------
(* C28 *)

\* a question that is empty after trimming
Blank(text) ==
    /\ text.has
    /\ text.str
    /\ \A j \in DOMAIN text.question : text.question[j] = " "

\* the step appends exactly one message, an error with success = False
OneError ==
    /\ Len(sent') = Len(sent) + 1
    /\ SubSeq(sent', 1, Len(sent)) = sent
    /\ sent'[Len(sent')].type = "error"
    /\ ~sent'[Len(sent')].success

\* C28: on /ws/ask a text that is not JSON, a message without question and a
\* message whose question is blank after trimming each get exactly one error
\* message with success = False and no processing message; a question whose
\* answering fails gets, after its processing message, exactly one error
\* message with success = False; in each case the handler is back at
\* reading the next message and the connection stays open.
ErrorsKeepConnection ==
    [][/\ (Len(inbox') = Len(inbox) + 1
             /\ LET text == inbox'[Len(inbox')]
                IN text.json = "invalid" \/ ~text.has \/ Blank(text))
          => (OneError /\ ws' = "receive")
       /\ (ws = "answering" /\ ws' # "answering"
             /\ sent'[Len(sent')].type # "answer")
          => (OneError /\ ws' = "receive" /\ sent[Len(sent)].type = "processing")
      ]_vars

ErrorsKeepConnectionWitness ==
    /\ ws = "receive"
    /\ Len(inbox) = 2
    /\ inbox[1].json = "invalid"
    /\ Len(sent) = 4
    /\ sent[2].type = "error"
    /\ sent[3].type = "processing"
    /\ sent[4].type = "error"

====
